---------------------------- MODULE Spec2Model ----------------------------
(***************************************************************************)
(* A model of strava/go.geo's bound.go: the Bound type (an axis-aligned    *)
(* box held as two corner points sw and ne), its constructors, its         *)
(* geometric operations, and the two GeoHash decoders.                     *)
(*                                                                         *)
(* Numbers.  A float64 coordinate is modelled as an integer.  The Bound    *)
(* operations only compare, take min/max of, and add or subtract           *)
(* coordinates, all of which are exact on the small integers used here.    *)
(* The GeoHash decoders halve ranges, so their coordinates are fixed-point *)
(* integers in units of 2^-FracBits degrees: a midpoint (a+b)/2 is exact   *)
(* for the first FracBits+2 halvings of an axis and rounds down after      *)
(* that (float64 is exact further and then rounds as well).                *)
(*                                                                         *)
(* Machine words.  A 64-bit integer (uint64 or int64) is modelled as the   *)
(* set of positions of its 1 bits, a subset of 0..63, so that shifts,      *)
(* masks, unsigned comparison and wrap-around keep their 64-bit meaning.   *)
(***************************************************************************)
EXTENDS Integers, Sequences, FiniteSets

VARIABLES
    b,        \* the receiver Bound: [sw |-> <<x, y>>, ne |-> <<x, y>>]
    ret,      \* the last completed call: [op, pre, arg, res]
    tile,     \* the last NewBoundFromMapTile call and its outcome
    pc,       \* position inside NewBoundFromGeoHashInt64 / geoHashInt2ranges
    hash,     \* geoHashInt2ranges: parameter hash (int64, a word)
    bits,     \* geoHashInt2ranges: parameter bits (int)
    i,        \* geoHashInt2ranges: the loop cursor (int64, a word)
    lngMin, lngMax, latMin, latMax   \* geoHashInt2ranges: the two ranges

vars == <<b, ret, tile, pc, hash, bits, i, lngMin, lngMax, latMin, latMax>>

boundVars == <<b, ret>>
decodeVars == <<pc, hash, bits, i, lngMin, lngMax, latMin, latMax>>

(***************************************************************************)
(* Bounds of the model.                                                    *)
(***************************************************************************)
\* Input coordinates of the Bound operations are drawn from 0..MaxCoord.
MaxCoord == 2
\* Zoom levels of NewBoundFromMapTile are drawn from 0..MaxZoom.
MaxZoom == 65
\* Small tile indexes 0..MaxTile (the large ones are listed in TileIndexes).
MaxTile == 3
\* GeoHash strings have at most MaxLen characters.
MaxLen == 2
\* Small bit counts 0..MaxBits of the integer decoder.
MaxBits == 12
\* Fractional binary digits of a decoder coordinate.
FracBits == 21

\* The width of uint64 and int64.
WordBits == 64

(***************************************************************************)
(* 64-bit words as sets of bit positions.                                  *)
(***************************************************************************)
BitPositions == 0 .. (WordBits - 1)

\* The word of an integer n, |n| < 2^31, in two's complement.
ToWord(n) ==
    {k \in BitPositions : IF k < 31 THEN (n \div (2 ^ k)) % 2 = 1 ELSE n < 0}

\* w << n: Go shifts out the bits that pass the top; a count >= 64 leaves 0.
Shl(w, n) == {k + n : k \in {c \in w : c + n < WordBits}}

\* w >> 1 of a signed word: arithmetic, the sign bit is copied.
Sar1(w) ==
    {k - 1 : k \in w \ {0}} \cup (IF (WordBits - 1) \in w THEN {WordBits - 1} ELSE {})

\* a & b
And(a, c) == a \cap c

\* a < b, unsigned: the highest bit in which they differ is set in b.
ULess(a, c) == \E k \in c \ a : \A j \in a \ c : j < k

\* w + 1, unsigned, wrapping to 0.
Inc(w) ==
    LET clear == BitPositions \ w
    IN  IF clear = {} THEN {}
        ELSE LET k == CHOOSE c \in clear : \A d \in clear : c <= d
             IN  (w \ (0 .. k)) \cup {k}

(***************************************************************************)
(* Points (point.go, type Point [2]float64) and math.Min / math.Max.       *)
(***************************************************************************)
X(p) == p[1]
Y(p) == p[2]

Min(x, y) == IF x < y THEN x ELSE y
Max(x, y) == IF x > y THEN x ELSE y

(***************************************************************************)
(* Bound: pure operations.  A mutating method is an operator from the      *)
(* receiver's value before the call to its value after it.                 *)
(***************************************************************************)
NewBound(west, east, south, north) ==
    [sw |-> <<Min(east, west), Min(north, south)>>,
     ne |-> <<Max(east, west), Max(north, south)>>]

SouthWest(bd) == bd.sw
NorthEast(bd) == bd.ne
SouthEast(bd) == <<X(bd.ne), Y(bd.sw)>>
NorthWest(bd) == <<X(bd.sw), Y(bd.ne)>>

\* A slip: <= for <, which shuts the boundary out.
ContainsExclusive(bd, point) ==
    IF Y(point) <= Y(bd.sw) \/ Y(bd.ne) <= Y(point) THEN FALSE
    ELSE IF X(point) <= X(bd.sw) \/ X(bd.ne) <= X(point) THEN FALSE
    ELSE TRUE

Contains(bd, point) ==
    IF Y(point) < Y(bd.sw) \/ Y(bd.ne) < Y(point) THEN FALSE
    ELSE IF X(point) < X(bd.sw) \/ X(bd.ne) < X(point) THEN FALSE
    ELSE TRUE

\* A copy-and-paste slip: the north edge is set with Min instead of Max.
ExtendMinNorth(bd, point) ==
    IF Contains(bd, point) THEN bd
    ELSE [sw |-> <<Min(X(bd.sw), X(point)), Min(Y(bd.sw), Y(point))>>,
          ne |-> <<Max(X(bd.ne), X(point)), Min(Y(bd.ne), Y(point))>>]

Extend(bd, point) ==
    IF Contains(bd, point) THEN bd
    ELSE [sw |-> <<Min(X(bd.sw), X(point)), Min(Y(bd.sw), Y(point))>>,
          ne |-> <<Max(X(bd.ne), X(point)), Max(Y(bd.ne), Y(point))>>]

\* A slip: only the two western corners of other are extended by.
UnionWestOnly(bd, other, aliased) ==
    LET b1 == Extend(bd, SouthWest(IF aliased THEN bd ELSE other))
    IN  Extend(b1, NorthWest(IF aliased THEN b1 ELSE other))

\* b.Union(other).  other's corners are read one call at a time, so when
\* other is the receiver itself (aliased) each read sees the receiver as
\* the Extend calls before it left it.
Union(bd, other, aliased) ==
    LET b1 == Extend(bd, SouthWest(IF aliased THEN bd ELSE other))
        b2 == Extend(b1, NorthWest(IF aliased THEN b1 ELSE other))
        b3 == Extend(b2, SouthEast(IF aliased THEN b2 ELSE other))
    IN  Extend(b3, NorthEast(IF aliased THEN b3 ELSE other))

Intersects(bd, bound) ==
    IF \/ Contains(bound, bd.sw) \/ Contains(bound, bd.ne)
       \/ Contains(bound, SouthEast(bd)) \/ Contains(bound, NorthWest(bd))
    THEN TRUE
    ELSE IF Contains(bd, bound.sw) THEN TRUE
    ELSE FALSE

Pad(bd, amount) ==
    [sw |-> <<X(bd.sw) - amount, Y(bd.sw) - amount>>,
     ne |-> <<X(bd.ne) + amount, Y(bd.ne) + amount>>]

Empty(bd) == X(bd.sw) >= X(bd.ne) \/ Y(bd.sw) >= Y(bd.ne)

Equals(bd, c) == bd.sw = c.sw /\ bd.ne = c.ne

NewBoundFromPoints(corner, oppositeCorner) ==
    Extend([sw |-> corner, ne |-> corner], oppositeCorner)

Clone(bd) == NewBoundFromPoints(bd.sw, bd.ne)

(***************************************************************************)
(* The Bound machine: one receiver b, built by a constructor and then      *)
(* changed by Extend, Union and Pad and queried by Contains, Intersects    *)
(* and Clone.  ret records the last call: the receiver before it (pre),    *)
(* its argument (arg) and what it returned (res); a field a call does not  *)
(* use holds Unset or "self" (the receiver, returned for chaining).        *)
(***************************************************************************)
Unset == [sw |-> <<0, 0>>, ne |-> <<0, 0>>]

InputCoords == 0 .. MaxCoord
InputPoints == InputCoords \X InputCoords
\* The argument bounds of Union and Intersects: every NewBound over the grid.
InputBounds ==
    {NewBound(w, e, s, n) : w \in InputCoords, e \in InputCoords,
                            s \in InputCoords, n \in InputCoords}
PadAmounts == {-1, 1}
\* Pad is not taken past the input grid, which keeps the coordinates bounded.
InWindow(bd) ==
    /\ X(bd.sw) \in InputCoords /\ Y(bd.sw) \in InputCoords
    /\ X(bd.ne) \in InputCoords /\ Y(bd.ne) \in InputCoords

IdleDecoder ==
    /\ pc = "idle" /\ hash = {} /\ bits = 0 /\ i = {}
    /\ lngMin = 0 /\ lngMax = 0 /\ latMin = 0 /\ latMax = 0
NoTile == [op |-> "none", x |-> {}, y |-> {}, z |-> 0, res |-> "none",
           shift |-> 0, p1 |-> <<{}, {}>>, p2 |-> <<{}, {}>>]

CallExtend(point) ==
    /\ b' = Extend(b, point)
    /\ ret' = [op |-> "Extend", pre |-> b, arg |-> point, res |-> "self"]
    /\ UNCHANGED <<tile, decodeVars>>

CallUnion(other) ==
    /\ b' = Union(b, other, FALSE)
    /\ ret' = [op |-> "Union", pre |-> b, arg |-> other, res |-> "self"]
    /\ UNCHANGED <<tile, decodeVars>>

\* b.Union(b)
CallUnionSelf ==
    /\ b' = Union(b, b, TRUE)
    /\ ret' = [op |-> "Union", pre |-> b, arg |-> b, res |-> "self"]
    /\ UNCHANGED <<tile, decodeVars>>

CallPad(amount) ==
    /\ InWindow(Pad(b, amount))
    /\ b' = Pad(b, amount)
    /\ ret' = [op |-> "Pad", pre |-> b, arg |-> amount, res |-> "self"]
    /\ UNCHANGED <<tile, decodeVars>>

CallContains(point) ==
    /\ ret' = [op |-> "Contains", pre |-> Unset, arg |-> point,
               res |-> Contains(b, point)]
    /\ UNCHANGED <<b, tile, decodeVars>>

CallIntersects(bound) ==
    /\ ret' = [op |-> "Intersects", pre |-> Unset, arg |-> bound,
               res |-> Intersects(b, bound)]
    /\ UNCHANGED <<b, tile, decodeVars>>

CallClone ==
    /\ ret' = [op |-> "Clone", pre |-> Unset, arg |-> Unset, res |-> Clone(b)]
    /\ UNCHANGED <<b, tile, decodeVars>>

\* The state after construction, by either general constructor.
InitBound ==
    /\ \/ \E w \in InputCoords, e \in InputCoords, s \in InputCoords, n \in InputCoords :
             /\ b = NewBound(w, e, s, n)
             /\ ret = [op |-> "NewBound", pre |-> Unset,
                       arg |-> <<w, e, s, n>>, res |-> "self"]
       \/ \E c \in InputPoints, o \in InputPoints :
             /\ b = NewBoundFromPoints(c, o)
             /\ ret = [op |-> "NewBoundFromPoints", pre |-> Unset,
                       arg |-> <<c, o>>, res |-> "self"]
    /\ tile = NoTile
    /\ IdleDecoder

NextBound ==
    \/ \E p \in InputPoints : CallExtend(p)
    \/ \E o \in InputBounds : CallUnion(o)
    \/ CallUnionSelf
    \/ \E a \in PadAmounts : CallPad(a)
    \/ \E p \in InputPoints \cup {SouthWest(b), NorthEast(b)} : CallContains(p)
    \/ \E o \in InputBounds : CallIntersects(o)
    \/ CallClone

SpecBound == InitBound /\ [][NextBound]_vars

(***************************************************************************)
(* Claims about the Bound machine (checked under SpecBound).               *)
(***************************************************************************)
\* sw <= ne on both axes.
WellFormed(bd) == X(bd.sw) <= X(bd.ne) /\ Y(bd.sw) <= Y(bd.ne)

\* The axis-overlap test: the boxes overlap or touch.
Overlap(a, c) ==
    /\ X(a.sw) <= X(c.ne) /\ X(c.sw) <= X(a.ne)
    /\ Y(a.sw) <= Y(c.ne) /\ Y(c.sw) <= Y(a.ne)

\* C1: Intersects is symmetric: for well-formed bounds a and b, the result
\* of a.Intersects(b) is the result of b.Intersects(a).
C1_IntersectsSymmetric ==
    (ret.op = "Intersects" /\ WellFormed(b) /\ WellFormed(ret.arg))
        => (ret.res = Intersects(ret.arg, b))

\* C2: Intersects is the overlap test: for well-formed bounds a and b,
\* a.Intersects(b) is true exactly when the boxes overlap or touch.
C2_IntersectsIsOverlap ==
    (ret.op = "Intersects" /\ WellFormed(b) /\ WellFormed(ret.arg))
        => (ret.res = Overlap(b, ret.arg))

\* C7: Union yields the smallest enclosing box: for well-formed a and b,
\* after a.Union(b) the receiver's sw is the per-axis minimum of the two sw
\* and its ne the per-axis maximum of the two ne, and it contains every
\* point that a or b contained before the call.
C7_UnionSmallestEnclosing ==
    (ret.op = "Union" /\ WellFormed(ret.pre) /\ WellFormed(ret.arg))
        => /\ X(b.sw) = Min(X(ret.pre.sw), X(ret.arg.sw))
           /\ Y(b.sw) = Min(Y(ret.pre.sw), Y(ret.arg.sw))
           /\ X(b.ne) = Max(X(ret.pre.ne), X(ret.arg.ne))
           /\ Y(b.ne) = Max(Y(ret.pre.ne), Y(ret.arg.ne))
           /\ \A p \in InputPoints :
                 (Contains(ret.pre, p) \/ Contains(ret.arg, p)) => Contains(b, p)

\* C7's case: a Union with a box that sticks out of the receiver on the
\* east and on the north, so that the receiver grew.
C7_Witness ==
    /\ ret.op = "Union" /\ WellFormed(ret.pre) /\ WellFormed(ret.arg)
    /\ X(ret.arg.ne) > X(ret.pre.ne) /\ Y(ret.arg.ne) > Y(ret.pre.ne)
    /\ X(ret.arg.sw) > X(ret.pre.sw)
    /\ b # ret.pre

\* C8: Extend is idempotent: after b.Extend(p), for b well-formed or
\* inverted, a second Extend(p) changes nothing, and the bound contains p.
C8_ExtendIdempotent ==
    (ret.op = "Extend") => (Extend(b, ret.arg) = b /\ Contains(b, ret.arg))

\* C8's case: an inverted bound was extended by a point and changed.
C8_Witness ==
    /\ ret.op = "Extend" /\ ~WellFormed(ret.pre) /\ b # ret.pre

C10_ClonePreserves ==
    (ret.op = "Clone") => (Equals(ret.res, b) /\ Empty(ret.res) = Empty(b))

(***************************************************************************)
(* NewBoundFromMapTile.  x, y and z are uint64: x and y are words, z is    *)
(* only compared and used as a shift count, so a natural number stands for *)
(* it.  scalarMercatorInverse lives in another file; the result keeps the  *)
(* two pixel pairs it is called with (p1, p2) instead of its corners.      *)
(***************************************************************************)
TileIndexes ==
    {ToWord(n) : n \in 0 .. MaxTile} \cup {{31}, {WordBits - 1}, BitPositions}

NewBoundFromMapTile(x, y, z) ==
    LET maxIndex == Shl(ToWord(1), z)
        shift == IF z > 31 THEN 0 ELSE 31 - z
    IN  \* x < 0 and y < 0 are never true of a uint64
        IF FALSE \/ FALSE \/ ~ULess(x, maxIndex) \/ ~ULess(y, maxIndex)
        THEN [res |-> "panic", shift |-> 0, p1 |-> <<{}, {}>>, p2 |-> <<{}, {}>>]
        ELSE [res |-> "bound", shift |-> shift,
              p1 |-> <<Shl(x, shift), Shl(y, shift)>>,
              p2 |-> <<Shl(Inc(x), shift), Shl(Inc(y), shift)>>]

CallNewBoundFromMapTile ==
    /\ tile.op = "pending"
    /\ LET r == NewBoundFromMapTile(tile.x, tile.y, tile.z)
       IN  tile' = [op |-> "NewBoundFromMapTile", x |-> tile.x, y |-> tile.y,
                    z |-> tile.z, res |-> r.res, shift |-> r.shift,
                    p1 |-> r.p1, p2 |-> r.p2]
    /\ UNCHANGED <<boundVars, decodeVars>>

\* A call about to be made, with its arguments.
InitTile ==
    /\ \E x \in TileIndexes, y \in TileIndexes, z \in 0 .. MaxZoom :
          tile = [op |-> "pending", x |-> x, y |-> y, z |-> z, res |-> "none",
                  shift |-> 0, p1 |-> <<{}, {}>>, p2 |-> <<{}, {}>>]
    /\ b = Unset
    /\ ret = [op |-> "none", pre |-> Unset, arg |-> Unset, res |-> "self"]
    /\ IdleDecoder

NextTile == CallNewBoundFromMapTile

SpecTile == InitTile /\ [][NextTile]_vars

\* w < 2^z, for the mathematical power of two.
BelowPow2(w, z) == \A k \in w : k < z

\* C4: NewBoundFromMapTile fails with the out-of-range error when
\* x >= 2^z or y >= 2^z and returns a bound when x < 2^z and y < 2^z,
\* for every zoom, including z >= 64.
C4_TileValidation ==
    (tile.op = "NewBoundFromMapTile")
        => ((tile.res = "panic")
               <=> ~(BelowPow2(tile.x, tile.z) /\ BelowPow2(tile.y, tile.z)))

(***************************************************************************)
(* The GeoHash decoders.  Coordinates are in units of 2^-FracBits degrees. *)
(***************************************************************************)
Deg(d) == d * (2 ^ FracBits)

\* (a + c) / 2.0
Mid(a, c) == (a + c) \div 2

Alphabet ==
    << "0", "1", "2", "3", "4", "5", "6", "7", "8", "9", "b", "c", "d", "e",
       "f", "g", "h", "j", "k", "m", "n", "p", "q", "r", "s", "t", "u", "v",
       "w", "x", "y", "z" >>

\* strings.Index(alphabet, string(r)): the position of r, from 0, or -1.
Index(r) ==
    IF \E k \in 1 .. Len(Alphabet) : Alphabet[k] = r
    THEN (CHOOSE k \in 1 .. Len(Alphabet) : Alphabet[k] = r) - 1
    ELSE -1

\* One pass of the inner loop's body: a longitude halving when even, a
\* latitude halving when not; zero says i&j == 0.
BisectBit(r, zero) ==
    IF r.even
    THEN LET mid == Mid(r.lngMin, r.lngMax)
         IN  IF zero THEN [r EXCEPT !.lngMax = mid, !.even = ~r.even]
                     ELSE [r EXCEPT !.lngMin = mid, !.even = ~r.even]
    ELSE LET mid == Mid(r.latMin, r.latMax)
         IN  IF zero THEN [r EXCEPT !.latMax = mid, !.even = ~r.even]
                     ELSE [r EXCEPT !.latMin = mid, !.even = ~r.even]

\* for j := 0x10; j != 0; j >>= 1 { ... }, with iw the word of i
RECURSIVE DecodeRune(_, _, _)
DecodeRune(r, iw, j) ==
    IF j = {} THEN r
    ELSE DecodeRune(BisectBit(r, And(iw, j) = {}), iw, Sar1(j))

\* for _, r := range hash { ... }, from the k-th character on
RECURSIVE DecodeRunes(_, _, _)
DecodeRunes(r, str, k) ==
    IF k > Len(str) THEN r
    ELSE DecodeRunes(DecodeRune(r, ToWord(Index(str[k])), ToWord(16)), str, k + 1)

\* Returns <<lngMin, lngMax, latMin, latMax>>.  A string is the sequence
\* of its characters.
geoHash2ranges(str) ==
    LET r == DecodeRunes([latMin |-> Deg(-90), latMax |-> Deg(90),
                          lngMin |-> Deg(-180), lngMax |-> Deg(180),
                          even |-> TRUE], str, 1)
    IN  <<r.lngMin, r.lngMax, r.latMin, r.latMax>>

\* NewBoundFromGeoHash: there is no error path, every string gives a bound.
NewBoundFromGeoHash(str) ==
    LET r == geoHash2ranges(str)
    IN  NewBound(r[1], r[2], r[3], r[4])

\* The characters GeoHash strings are drawn from: "a" and "A" are not in
\* the alphabet.
ValidChars == {"0", "9", "s", "z"}
InputChars == ValidChars \cup {"a", "A"}
StringsOver(chars) ==
    UNION {[1 .. n -> chars] : n \in 0 .. MaxLen}

\* The integer whose 5*Len(str) low bits are the characters' values.
RECURSIVE StrValue(_, _)
StrValue(str, k) ==
    IF k = 0 THEN 0 ELSE StrValue(str, k - 1) * 32 + Index(str[k])

HashInts ==
    ((-1) .. 3) \cup {StrValue(str, Len(str)) : str \in StringsOver(ValidChars)}
BitCounts == (0 .. MaxBits) \cup {WordBits - 2, WordBits - 1, WordBits}

(***************************************************************************)
(* NewBoundFromGeoHashInt64 / geoHashInt2ranges, one action per step:      *)
(*   "call"  the call is about to be made                                  *)
(*   "loop"  at the loop test, for i != 0                                  *)
(*   "lat"   inside the body, after the longitude half                     *)
(*   "done"  returned                                                      *)
(***************************************************************************)
\* latMin, latMax := -90.0, 90.0 ... i = 1 << uint(bits)
EnterInt ==
    /\ pc = "call"
    /\ latMin' = Deg(-90) /\ latMax' = Deg(90)
    /\ lngMin' = Deg(-180) /\ lngMax' = Deg(180)
    /\ i' = Shl(ToWord(1), bits)
    /\ pc' = "loop"
    /\ UNCHANGED <<b, ret, tile, hash, bits>>

\* i >>= 1 and the longitude halving
LngStep ==
    /\ pc = "loop" /\ i # {}
    /\ LET i1 == Sar1(i)
           mid == Mid(lngMin, lngMax)
       IN  /\ i' = i1
           /\ IF And(hash, i1) = {}
              THEN lngMax' = mid /\ lngMin' = lngMin
              ELSE lngMin' = mid /\ lngMax' = lngMax
    /\ pc' = "lat"
    /\ UNCHANGED <<b, ret, tile, hash, bits, latMin, latMax>>

\* i >>= 1 and the latitude halving
LatStep ==
    /\ pc = "lat"
    /\ LET i1 == Sar1(i)
           mid == Mid(latMin, latMax)
       IN  /\ i' = i1
           /\ IF And(hash, i1) = {}
              THEN latMax' = mid /\ latMin' = latMin
              ELSE latMin' = mid /\ latMax' = latMax
    /\ pc' = "loop"
    /\ UNCHANGED <<b, ret, tile, hash, bits, lngMin, lngMax>>

\* The loop ends; NewBoundFromGeoHashInt64 builds the bound.
ReturnInt ==
    /\ pc = "loop" /\ i = {}
    /\ b' = NewBound(lngMin, lngMax, latMin, latMax)
    /\ ret' = [ret EXCEPT !.res = "bound"]
    /\ pc' = "done"
    /\ UNCHANGED <<tile, hash, bits, i, lngMin, lngMax, latMin, latMax>>

CallNewBoundFromGeoHash ==
    /\ ret.op = "NewBoundFromGeoHash" /\ ret.res = "pending"
    /\ b' = NewBoundFromGeoHash(ret.arg)
    /\ ret' = [ret EXCEPT !.res = "bound"]
    /\ UNCHANGED <<tile, decodeVars>>

\* A call about to be made, with its arguments: of the integer
\* constructor, or of the string constructor.
InitHash ==
    /\ b = Unset
    /\ tile = NoTile
    /\ i = {}
    /\ lngMin = 0 /\ lngMax = 0 /\ latMin = 0 /\ latMax = 0
    /\ \/ \E h \in HashInts, n \in BitCounts :
             /\ pc = "call" /\ hash = ToWord(h) /\ bits = n
             /\ ret = [op |-> "NewBoundFromGeoHashInt64", pre |-> Unset,
                       arg |-> <<h, n>>, res |-> "pending"]
       \/ \E str \in StringsOver(InputChars) :
             /\ pc = "idle" /\ hash = {} /\ bits = 0
             /\ ret = [op |-> "NewBoundFromGeoHash", pre |-> Unset,
                       arg |-> str, res |-> "pending"]

NextHash ==
    \/ EnterInt
    \/ LngStep
    \/ LatStep
    \/ ReturnInt
    \/ CallNewBoundFromGeoHash

SpecHash == InitHash /\ [][NextHash]_vars

\* A running call of the integer constructor takes its next step.
FairSpecHash ==
    /\ SpecHash
    /\ WF_vars(EnterInt) /\ WF_vars(LngStep) /\ WF_vars(LatStep)
    /\ WF_vars(ReturnInt)

(***************************************************************************)
(* Claims about the decoders.                                              *)
(***************************************************************************)
\* C3: a hash string with a character outside the alphabet ends in an
\* InvalidEncoding error and gives no bound.
C3_InvalidCharIsAnError ==
    (/\ ret.op = "NewBoundFromGeoHash" /\ ret.res # "pending"
     /\ \E k \in 1 .. Len(ret.arg) : Index(ret.arg[k]) = -1)
        => (ret.res = "InvalidEncoding" /\ b = Unset)

\* The ranges after exactly k/2 longitude and k/2 latitude halvings, taken
\* from bits k-1 .. 0 of h, most significant first.
RECURSIVE RefRanges(_, _, _)
RefRanges(r, h, k) ==
    IF k <= 0 THEN r
    ELSE LET lm == Mid(r[1], r[2])
             tm == Mid(r[3], r[4])
             lng == IF (k - 1) \in h THEN <<lm, r[2]>> ELSE <<r[1], lm>>
             lat == IF (k - 2) \in h THEN <<tm, r[4]>> ELSE <<r[3], tm>>
         IN  RefRanges(<<lng[1], lng[2], lat[1], lat[2]>>, h, k - 2)

FullDomain == <<Deg(-180), Deg(180), Deg(-90), Deg(90)>>

\* C5: for an even bit count in 0..62 the integer decoder returns the
\* ranges of exactly bits/2 halvings per axis, read from the hash most
\* significant bit first: the rectangle the string decoder returns for the
\* same bit sequence, and the full domain for bits = 0.
C5_IntDecodeBisectsBitsOverTwo ==
    (pc = "done" /\ bits % 2 = 0 /\ bits <= WordBits - 2)
        => /\ <<lngMin, lngMax, latMin, latMax>> = RefRanges(FullDomain, hash, bits)
           /\ \A str \in StringsOver(ValidChars) :
                 (5 * Len(str) = bits /\ ToWord(StrValue(str, Len(str))) = hash)
                     => <<lngMin, lngMax, latMin, latMax>> = geoHash2ranges(str)
           /\ (bits = 0) => <<lngMin, lngMax, latMin, latMax>> = FullDomain

\* C6: GeoHash decoding always terminates: every call of the integer
\* decoder with bits in 0..64 returns.
C6_DecodeTerminates == (pc = "call") ~> (pc = "done")

====
